---- MODULE Spec2Model ----
(***************************************************************************)
(* planetaryum: the Builder composition model (builders.py), the Static    *)
(* HTML Builder and the StaticGen application (apps/static_gen.py).        *)
(*                                                                         *)
(* Python values are records with a cls field.  A dict is a set of         *)
(* <<key, value>> pairs.  Dict objects live in a heap (a sequence indexed  *)
(* by reference) so that sharing and in-place mutation are visible.        *)
(* A filesystem path is the sequence of its components.                    *)
(***************************************************************************)
EXTENDS Integers, Sequences, FiniteSets, TLC

VARIABLES
    opA, opB, opC,      \* operands of the composition expressions
    ab, bc,             \* A >> B and B >> C
    left, right,        \* (A >> B) >> C and A >> (B >> C)
    steps,              \* BuilderChain.steps of the chain being run
    idx,                \* position of the for loop of BuilderChain.run
    rpc,                \* "idle" | "running" | "done" | "failed"
    cur,                \* the local variable state of BuilderChain.run (a reference)
    heap,               \* dict objects: heap[ref] is the content of object ref
    invoked,            \* log: one record per call of a step's run
    returned,           \* log: one record per return of a step's run
    ret,                \* what BuilderChain.run returned
    runs,               \* number of calls of BuilderChain.run so far
    given,              \* the state argument of the current call of BuilderChain.run
    hpc,                \* position inside StaticHTMLBuilder.run: "none" | "loop" | "css"
    reader,             \* the documents the reader has yielded to the running step
    meta,               \* the local variable meta of StaticHTMLBuilder.run
    css,                \* the local variable css of StaticHTMLBuilder.run
    fs,                 \* the filesystem: directories and files
    ops,                \* log of the filesystem operations of the current run
    prev                \* when the current run repeats the previous one on the same
                        \* input directory: the previous run's chain, documents and
                        \* outcome, and the filesystem it left; NoPrev otherwise

composeVars == <<opA, opB, opC, ab, bc, left, right>>
runVars == <<steps, idx, rpc, cur, heap, invoked, returned, ret, runs, given>>
htmlVars == <<hpc, reader, meta, css>>
vars == <<composeVars, runVars, htmlVars, fs, ops, prev>>

-----------------------------------------------------------------------------
(* Bounds *)

MaxOperandLen == 2      \* longest chain used as an operand of >>
MaxRuns == 2            \* calls of BuilderChain.run in one behaviour
MaxDocs == 2            \* documents a reader yields in one run
MaxChain == 2           \* longest chain run directly, and longest finishing chain

-----------------------------------------------------------------------------
(* Python values *)

Unset == [cls |-> "unset"]
None == [cls |-> "NoneType"]
ValueError == [cls |-> "ValueError"]

\* Builders written by the user of the library (subclasses of Builder):
\* PutBuilder does state[key] = val and returns state; FreshBuilder returns
\* a new dict, dict(state, key=val); RaiseBuilder raises.
PutK == [cls |-> "PutBuilder", key |-> "k", val |-> 1]
FreshJ == [cls |-> "FreshBuilder", key |-> "j", val |-> 2]
Raise == [cls |-> "RaiseBuilder"]
UserLeaves == { PutK, FreshJ, Raise }

LeafClasses ==
    {"PutBuilder", "FreshBuilder", "RaiseBuilder",
     "CopyIPynbBuilder", "CopyTreeBuilder", "StaticHTMLBuilder"}

BuilderChain(stepSeq) == [cls |-> "BuilderChain", steps |-> stepSeq]

IsChain(x) == x.cls = "BuilderChain"
IsBuilder(x) == IsChain(x) \/ x.cls \in LeafClasses

\* Values that are no Builder: a str and None.
NonBuilders == { [cls |-> "str"], None }

SeqsUpTo(S, n) == UNION { [1..k -> S] : k \in 0..n }

\* Builder.__rshift__ without the type check
BuilderRShiftUnchecked(self, other) ==
    IF IsChain(other) THEN BuilderChain(<<self>> \o other.steps)
    ELSE BuilderChain(<<self, other>>)

BuilderRShift(self, other) ==
    IF IsChain(other) THEN BuilderChain(<<self>> \o other.steps)
    ELSE IF IsBuilder(other) THEN BuilderChain(<<self, other>>)
    ELSE ValueError

\* BuilderChain.__rshift__ that appends a chain as one step
ChainRShiftNested(self, other) ==
    IF IsBuilder(other) THEN BuilderChain(Append(self.steps, other))
    ELSE ValueError

ChainRShift(self, other) ==
    IF IsChain(other) THEN BuilderChain(self.steps \o other.steps)
    ELSE IF IsBuilder(other) THEN BuilderChain(Append(self.steps, other))
    ELSE ValueError

\* self >> other: Python picks the method of self's class.
RShift(self, other) ==
    IF IsChain(self) THEN ChainRShift(self, other) ELSE BuilderRShift(self, other)

-----------------------------------------------------------------------------
(* dicts and the heap *)

EmptyDict == {}

\* d[k] = v
DictPut(d, k, v) == { p \in d : p[1] # k } \cup { <<k, v>> }

\* The object BuilderChain.run's default argument state={} is bound to: one
\* dict, created when the function is defined, the same in every call.
DefaultRef == 1

-----------------------------------------------------------------------------
(* Paths and the filesystem *)

RECURSIVE Str(_)
Str(path) ==
    IF Len(path) = 0 THEN "."
    ELSE IF Len(path) = 1 THEN path[1]
    ELSE path[1] \o "/" \o Str(Tail(path))

IsPrefix(p, q) == Len(p) <= Len(q) /\ SubSeq(q, 1, Len(p)) = p

\* path.relative_to(base); the program only calls it below base
RelativeTo(path, base) == SubSeq(path, Len(base) + 1, Len(path))

Prefixes(path) == { SubSeq(path, 1, k) : k \in 1..Len(path) }

\* path.mkdir(parents=True, exist_ok=True)
MkdirP(f, path) == [f EXCEPT !.dirs = @ \cup Prefixes(path)]

\* a write that keeps the content of a file that already exists
WriteFileKeeping(f, path, content) ==
    [f EXCEPT !.files =
        [p \in DOMAIN @ \cup {path} |->
            IF p = path /\ p \notin DOMAIN @ THEN content ELSE @[p]]]

\* path.write_text(text), open('w') + write
WriteFile(f, path, content) ==
    [f EXCEPT !.files =
        [p \in DOMAIN @ \cup {path} |-> IF p = path THEN content ELSE @[p]]]

OpMkdir(path) == [op |-> "mkdir", path |-> path]
OpWrite(path) == [op |-> "write", path |-> path]

Out == <<"_site">>
FrontEndDir == <<"front_ends", "static_gen">>

\* Before the first run: the front-end tree exists, the output directory does not.
InitFs ==
    [dirs |-> Prefixes(FrontEndDir),
     files |-> [p \in {FrontEndDir \o <<"index.html">>} |-> [text |-> "<front-end>"]]]

-----------------------------------------------------------------------------
(* Documents and the extraction pipeline *)

\* What a reader can yield: the rendering collaborator's result for each
\* notebook.  Two notebooks share the name "a"; rendering "bad" fails.
DocUniverse ==
    { [name |-> "a", html |-> "<a>", css |-> <<"body{}">>, ok |-> TRUE],
      [name |-> "b", html |-> "<b>", css |-> <<"a{}", "b{}">>, ok |-> TRUE],
      [name |-> "a", html |-> "<a2>", css |-> <<>>, ok |-> TRUE],
      [name |-> "bad", html |-> "", css |-> <<>>, ok |-> FALSE] }

\* MetadataExtractor('meta', thumbnails=...)
MetaFacet(doc, thumbnails) ==
    IF thumbnails THEN [title |-> doc.name, thumbnail |-> "thumb:" \o doc.name]
    ELSE [title |-> doc.name]

NoPrev == [cls |-> "unset"]

\* The reader yields doc next: any document, or, when the input directory is
\* the one of the previous run, the document it yielded then.
Yields(doc) ==
    IF prev = NoPrev THEN TRUE
    ELSE /\ Len(reader) < Len(prev.reader)
         /\ doc = prev.reader[Len(reader) + 1]

\* The reader has no further document.
Exhausted == IF prev = NoPrev THEN TRUE ELSE Len(reader) = Len(prev.reader)

\* One bundle of ex.extract(reader, extractors)
Extract(doc, thumbnails) ==
    [name |-> doc.name,
     meta |-> MetaFacet(doc, thumbnails),
     html |-> [html |-> doc.html, meta |-> [inlining |-> [css |-> doc.css]]]]

-----------------------------------------------------------------------------
(* StaticHTMLBuilder *)

CmdArgs == { <<>>, <<"--dev">> }

StaticHTMLBuilder(out_dir, cmdargs, thumbnails, write_css) ==
    [cls |-> "StaticHTMLBuilder", out |-> out_dir, cmdargs |-> cmdargs,
     thumbnails |-> thumbnails, write_css |-> write_css]

List(items) == [cls |-> "list", items |-> items]

\* Python truth value of the local variable css
Truthy(v) == v.cls = "list" /\ Len(v.items) > 0

NbsDir(self) == self.out \o <<"notebooks">>
AssetsDir(self) == self.out \o <<"assets", "css">>
MetaPath(self) == self.out \o <<"meta.json">>

\* meta without the builder's cmdargs
InitMetaNoArgs(self) == [cmdargs |-> <<>>, notebooks |-> <<>>]

InitMeta(self) == [cmdargs |-> self.cmdargs, notebooks |-> <<>>]

HtmlPath(self, data) == NbsDir(self) \o <<data.name \o ".html">>

NotebookEntry(self, data) ==
    [_id |-> "notebook/" \o data.name,
     name |-> data.name,
     filename |-> data.name \o ".ipynb",
     path |-> Str(RelativeTo(HtmlPath(self, data), self.out)),
     meta |-> data.meta]

\* the entry put in front of the list
PrependEntry(m, entry) == [m EXCEPT !.notebooks = <<entry>> \o @]

AppendEntry(m, entry) == [m EXCEPT !.notebooks = Append(@, entry)]

\* the current CSS set replaced only by a document that has fragments
CssKeptWhenEmpty(old, data) ==
    IF data.html.meta.inlining.css = <<>> /\ old.cls = "list" THEN old
    ELSE List(data.html.meta.inlining.css)

\* the fragments of all documents accumulated
CssMerged(old, data) ==
    IF old.cls = "list" THEN List(old.items \o data.html.meta.inlining.css)
    ELSE List(data.html.meta.inlining.css)

\* css = data['html']['meta']['inlining']['css']
CssOf(old, data) == List(data.html.meta.inlining.css)

\* if css
WritesCssAlways(self, c) == Truthy(c)

\* if self.write_css and css
WritesCss(self, c) == self.write_css /\ Truthy(c)

\* the sheets numbered from 1
CssPathOneBased(self, i) ==
    AssetsDir(self) \o <<"nbconvert-" \o ToString(i + 1) \o ".css">>

CssPath(self, i) == AssetsDir(self) \o <<"nbconvert-" \o ToString(i) \o ".css">>

\* for i, sheet in enumerate(css): path.write_text(sheet)
RECURSIVE WriteSheets(_, _, _, _)
WriteSheets(f, self, sheets, i) ==
    IF i >= Len(sheets) THEN f
    ELSE WriteSheets(WriteFile(f, CssPath(self, i), [text |-> sheets[i + 1]]),
                     self, sheets, i + 1)

SheetOps(self, sheets) == [i \in 1..Len(sheets) |-> OpWrite(CssPath(self, i - 1))]

-----------------------------------------------------------------------------
(* CopyTreeBuilder *)

CopyTreeBuilder(src, dst) == [cls |-> "CopyTreeBuilder", src |-> src, dst |-> dst]

\* copy_tree(src, dst): every file below src is written below dst
CopyTree(f, src, dst) ==
    LET srcFiles == { p \in DOMAIN f.files : IsPrefix(src, p) }
        target(q) == dst \o RelativeTo(q, src)
        targets == { target(q) : q \in srcFiles }
    IN  [dirs |-> f.dirs \cup Prefixes(dst)
                    \cup UNION { Prefixes(SubSeq(t, 1, Len(t) - 1)) : t \in targets },
         files |-> [p \in DOMAIN f.files \cup targets |->
                      IF p \in targets
                      THEN f.files[CHOOSE q \in srcFiles : target(q) = p]
                      ELSE f.files[p]]]

-----------------------------------------------------------------------------
(* CopyIPynbBuilder *)

CopyIPynbBuilder(dst) == [cls |-> "CopyIPynbBuilder", dst |-> dst]

\* The notebook file of a document, as the reader hands it out
Notebook(doc) == [ipynb |-> doc.html]

\* for nb, name in self.reader: copy(nb, self.dst)
RECURSIVE CopyNotebooks(_, _, _)
CopyNotebooks(f, docs, dst) ==
    IF docs = <<>> THEN f
    ELSE CopyNotebooks(
            WriteFile(f, dst \o <<Head(docs).name \o ".ipynb">>, Notebook(Head(docs))),
            Tail(docs), dst)

-----------------------------------------------------------------------------
(* BuilderChain.run *)

\* for s in self.steps
LoopNext(i) == i + 1

\* s.run(state) with its result dropped
RebindDropped(old, result) == old

\* state = s.run(state)
Rebind(old, result) == result

\* What run(self, state={}) binds state to: the argument, or the default object.
BindState(arg) == IF arg = Unset THEN DefaultRef ELSE 2

Call(i, ref, h) == [step |-> i, leaf |-> steps[i], ref |-> ref, val |-> h[ref]]
Return(i, ref, h) == [step |-> i, ref |-> ref, val |-> h[ref]]

AtStep(c) ==
    /\ rpc = "running"
    /\ hpc = "none"
    /\ idx <= Len(steps)
    /\ steps[idx].cls = c

\* chain.run() when arg = Unset, chain.run(arg.val) otherwise
Run(chain, arg) ==
    /\ rpc # "running"
    /\ runs < MaxRuns
    /\ IsChain(chain)
    /\ steps' = chain.steps
    /\ idx' = 1
    /\ heap' = IF arg = Unset THEN <<heap[DefaultRef]>>
                ELSE <<heap[DefaultRef], arg.val>>
    /\ cur' = BindState(arg)
    /\ given' = [explicit |-> arg # Unset, ref |-> cur', val |-> heap'[cur']]
    /\ invoked' = <<>>
    /\ returned' = <<>>
    /\ ret' = Unset
    /\ rpc' = "running"
    /\ runs' = runs + 1
    /\ ops' = <<>>
    /\ hpc' = "none"
    /\ reader' = <<>>
    /\ meta' = Unset
    /\ css' = None
    /\ UNCHANGED fs

\* return state
RunReturn ==
    /\ rpc = "running"
    /\ hpc = "none"
    /\ idx > Len(steps)
    /\ ret' = [ref |-> cur, val |-> heap[cur]]
    /\ rpc' = "done"
    /\ UNCHANGED <<composeVars, prev, steps, idx, cur, heap, invoked, returned, runs,
                   given, htmlVars, fs, ops>>

\* a user's builder: state[key] = val; return state
StepPut ==
    /\ AtStep("PutBuilder")
    /\ invoked' = Append(invoked, Call(idx, cur, heap))
    /\ heap' = [heap EXCEPT ![cur] = DictPut(@, steps[idx].key, steps[idx].val)]
    /\ cur' = Rebind(cur, cur)
    /\ returned' = Append(returned, Return(idx, cur', heap'))
    /\ idx' = LoopNext(idx)
    /\ UNCHANGED <<composeVars, prev, steps, rpc, ret, runs, given, htmlVars, fs, ops>>

\* a user's builder: return dict(state, key=val)
StepFresh ==
    /\ AtStep("FreshBuilder")
    /\ invoked' = Append(invoked, Call(idx, cur, heap))
    /\ heap' = Append(heap, DictPut(heap[cur], steps[idx].key, steps[idx].val))
    /\ cur' = Rebind(cur, Len(heap'))
    /\ returned' = Append(returned, Return(idx, Len(heap'), heap'))
    /\ idx' = LoopNext(idx)
    /\ UNCHANGED <<composeVars, prev, steps, rpc, ret, runs, given, htmlVars, fs, ops>>

\* BuilderChain.run swallowing the exception of a step and going on
StepRaiseSwallowed ==
    /\ AtStep("RaiseBuilder")
    /\ invoked' = Append(invoked, Call(idx, cur, heap))
    /\ idx' = LoopNext(idx)
    /\ UNCHANGED <<composeVars, prev, steps, rpc, cur, heap, returned, ret, runs, given,
                   htmlVars, fs, ops>>

\* a user's builder whose run raises: the exception leaves BuilderChain.run
StepRaise ==
    /\ AtStep("RaiseBuilder")
    /\ invoked' = Append(invoked, Call(idx, cur, heap))
    /\ rpc' = "failed"
    /\ UNCHANGED <<composeVars, prev, steps, idx, cur, heap, returned, ret, runs, given,
                   htmlVars, fs, ops>>

\* CopyTreeBuilder.run recording in the state what it copied
StepCopyTreeMarks ==
    /\ AtStep("CopyTreeBuilder")
    /\ invoked' = Append(invoked, Call(idx, cur, heap))
    /\ fs' = CopyTree(fs, steps[idx].src, steps[idx].dst)
    /\ ops' = Append(ops, [op |-> "copy_tree", path |-> steps[idx].dst])
    /\ heap' = [heap EXCEPT ![cur] = DictPut(@, "copied", 1)]
    /\ cur' = Rebind(cur, cur)
    /\ returned' = Append(returned, Return(idx, cur', heap'))
    /\ idx' = LoopNext(idx)
    /\ UNCHANGED <<composeVars, prev, steps, rpc, ret, runs, given, htmlVars>>

\* CopyTreeBuilder.run: copy_tree(self.src, self.dst); return state
StepCopyTree ==
    /\ AtStep("CopyTreeBuilder")
    /\ invoked' = Append(invoked, Call(idx, cur, heap))
    /\ fs' = CopyTree(fs, steps[idx].src, steps[idx].dst)
    /\ ops' = Append(ops, [op |-> "copy_tree", path |-> steps[idx].dst])
    /\ cur' = Rebind(cur, cur)
    /\ returned' = Append(returned, Return(idx, cur', heap))
    /\ idx' = LoopNext(idx)
    /\ UNCHANGED <<composeVars, prev, steps, rpc, heap, ret, runs, given, htmlVars>>

\* CopyIPynbBuilder.run over the documents the reader of this build yields
StepCopyIPynb ==
    /\ AtStep("CopyIPynbBuilder")
    /\ invoked' = Append(invoked, Call(idx, cur, heap))
    /\ fs' = CopyNotebooks(MkdirP(fs, steps[idx].dst), reader, steps[idx].dst)
    /\ ops' = Append(ops, OpMkdir(steps[idx].dst))
                \o [i \in 1..Len(reader) |->
                      OpWrite(steps[idx].dst \o <<reader[i].name \o ".ipynb">>)]
    /\ cur' = Rebind(cur, cur)
    /\ returned' = Append(returned, Return(idx, cur', heap))
    /\ idx' = LoopNext(idx)
    /\ UNCHANGED <<composeVars, prev, steps, rpc, heap, ret, runs, given, htmlVars>>

-----------------------------------------------------------------------------
(* StaticHTMLBuilder.run, one action per stretch of code between two pulls  *)
(* of the extraction generator                                              *)

\* The run starting from the index already on disk, when there is one
HtmlStartKeepsIndex ==
    /\ AtStep("StaticHTMLBuilder")
    /\ invoked' = Append(invoked, Call(idx, cur, heap))
    /\ fs' = MkdirP(fs, NbsDir(steps[idx]))
    /\ ops' = Append(ops, OpMkdir(NbsDir(steps[idx])))
    /\ meta' = IF MetaPath(steps[idx]) \in DOMAIN fs.files
               THEN fs.files[MetaPath(steps[idx])].json
               ELSE InitMeta(steps[idx])
    /\ css' = None
    /\ reader' = <<>>
    /\ hpc' = "loop"
    /\ UNCHANGED <<composeVars, prev, steps, idx, rpc, cur, heap, returned, ret, runs, given>>

\* nbs.mkdir(...); meta = {...}; css = None; the for loop is entered
HtmlStart ==
    /\ AtStep("StaticHTMLBuilder")
    /\ invoked' = Append(invoked, Call(idx, cur, heap))
    /\ fs' = MkdirP(fs, NbsDir(steps[idx]))
    /\ ops' = Append(ops, OpMkdir(NbsDir(steps[idx])))
    /\ meta' = InitMeta(steps[idx])
    /\ css' = None
    /\ reader' = <<>>
    /\ hpc' = "loop"
    /\ UNCHANGED <<composeVars, prev, steps, idx, rpc, cur, heap, returned, ret, runs, given>>

\* The loop body dumping the index after every document
HtmlDocDumpsMeta ==
    /\ rpc = "running"
    /\ hpc = "loop"
    /\ Len(reader) < MaxDocs
    /\ \E doc \in DocUniverse :
        /\ doc.ok
        /\ Yields(doc)
        /\ LET self == steps[idx]
               data == Extract(doc, self.thumbnails)
           IN  /\ reader' = Append(reader, doc)
               /\ css' = CssOf(css, data)
               /\ meta' = AppendEntry(meta, NotebookEntry(self, data))
               /\ fs' = WriteFile(WriteFile(fs, HtmlPath(self, data), [text |-> data.html.html]),
                                  MetaPath(self), [json |-> meta'])
               /\ ops' = ops \o <<OpWrite(HtmlPath(self, data)), OpWrite(MetaPath(self))>>
    /\ UNCHANGED <<composeVars, prev, runVars, hpc>>

\* The reader yields one more document and its bundle is extracted: the loop body
HtmlDoc ==
    /\ rpc = "running"
    /\ hpc = "loop"
    /\ Len(reader) < MaxDocs
    /\ \E doc \in DocUniverse :
        /\ doc.ok
        /\ Yields(doc)
        /\ LET self == steps[idx]
               data == Extract(doc, self.thumbnails)
           IN  /\ reader' = Append(reader, doc)
               /\ fs' = WriteFile(fs, HtmlPath(self, data), [text |-> data.html.html])
               /\ ops' = Append(ops, OpWrite(HtmlPath(self, data)))
               /\ css' = CssOf(css, data)
               /\ meta' = AppendEntry(meta, NotebookEntry(self, data))
    /\ UNCHANGED <<composeVars, prev, runVars, hpc>>

\* The loop skipping a document whose extraction raises
HtmlDocFailSkipped ==
    /\ rpc = "running"
    /\ hpc = "loop"
    /\ Len(reader) < MaxDocs
    /\ \E doc \in DocUniverse :
        /\ ~doc.ok
        /\ Yields(doc)
        /\ reader' = Append(reader, doc)
    /\ UNCHANGED <<composeVars, prev, runVars, hpc, meta, css, fs, ops>>

\* The reader yields one more document and extracting its bundle raises
HtmlDocFail ==
    /\ rpc = "running"
    /\ hpc = "loop"
    /\ Len(reader) < MaxDocs
    /\ \E doc \in DocUniverse :
        /\ ~doc.ok
        /\ Yields(doc)
        /\ reader' = Append(reader, doc)
    /\ rpc' = "failed"
    /\ hpc' = "none"
    /\ UNCHANGED <<composeVars, prev, steps, idx, cur, heap, invoked, returned, ret, runs,
                   given, meta, css, fs, ops>>

\* The reader is exhausted: json.dump(meta, f)
HtmlMeta ==
    /\ rpc = "running"
    /\ hpc = "loop"
    /\ Exhausted
    /\ fs' = WriteFile(fs, MetaPath(steps[idx]), [json |-> meta])
    /\ ops' = Append(ops, OpWrite(MetaPath(steps[idx])))
    /\ hpc' = "css"
    /\ UNCHANGED <<composeVars, prev, runVars, reader, meta, css>>

\* if self.write_css and css: ...; return state
HtmlCss ==
    /\ rpc = "running"
    /\ hpc = "css"
    /\ LET self == steps[idx] IN
        IF WritesCss(self, css)
        THEN /\ fs' = WriteSheets(MkdirP(fs, AssetsDir(self)), self, css.items, 0)
             /\ ops' = Append(ops, OpMkdir(AssetsDir(self))) \o SheetOps(self, css.items)
        ELSE UNCHANGED <<fs, ops>>
    /\ cur' = Rebind(cur, cur)
    /\ returned' = Append(returned, Return(idx, cur', heap))
    /\ idx' = LoopNext(idx)
    /\ hpc' = "none"
    /\ UNCHANGED <<composeVars, prev, steps, rpc, heap, invoked, ret, runs, given,
                   reader, meta, css>>

-----------------------------------------------------------------------------
(* StaticGen *)

\* StaticGen.__init__: self.builder
StaticGen(builder, cmdargs) ==
    [cls |-> "StaticGen",
     builder |-> RShift(StaticHTMLBuilder(Out, cmdargs, TRUE, TRUE), builder)]

\* The finishing builders a caller supplies
FrontEnd == CopyTreeBuilder(FrontEndDir, Out)
CopySources == CopyIPynbBuilder(Out \o <<"ipynb">>)
FinishBuilders ==
    { FrontEnd, BuilderChain(<<PutK, FreshJ, FrontEnd>>),
      BuilderChain(<<Raise, FrontEnd>>), BuilderChain(<<CopySources, FrontEnd>>) }

\* StaticGen(reader, out_dir, builder, cmdargs).build(): cli passes the
\* front-end arguments along with the front-end builder, other callers
\* leave cmdargs at its default
StaticGenBuild ==
    /\ \E b \in FinishBuilders, ca \in CmdArgs :
        /\ (ca # <<>> => b = FrontEnd)
        /\ Run(StaticGen(b, ca).builder, Unset)
    /\ prev' = NoPrev
    /\ UNCHANGED composeVars

\* build() called again on the same StaticGen, the input directory unchanged
Rebuild ==
    /\ rpc \in {"done", "failed"}
    /\ Len(steps) >= 2
    /\ Run(BuilderChain(steps), Unset)
    /\ prev' = [steps |-> steps, reader |-> reader, rpc |-> rpc, fs |-> fs, ops |-> ops]
    /\ UNCHANGED composeVars

\* A StaticHTMLBuilder built by the caller and run on its own
HtmlBuilders ==
    { StaticHTMLBuilder(Out, <<>>, TRUE, FALSE), StaticHTMLBuilder(Out, <<>>, FALSE, TRUE) }

RunHtml ==
    /\ \E h \in HtmlBuilders : Run(BuilderChain(<<h>>), Unset)
    /\ prev' = NoPrev
    /\ UNCHANGED composeVars

\* The same StaticHTMLBuilder but for the other write_css, run on the same
\* input directory
RunHtmlOtherCss ==
    /\ rpc \in {"done", "failed"}
    /\ Len(steps) = 1
    /\ Run(BuilderChain(<<[steps[1] EXCEPT !.write_css = ~@]>>), Unset)
    /\ prev' = [steps |-> steps, reader |-> reader, rpc |-> rpc, fs |-> fs, ops |-> ops]
    /\ UNCHANGED composeVars

InitRun ==
    /\ steps = <<>>
    /\ idx = 1
    /\ rpc = "idle"
    /\ cur = DefaultRef
    /\ heap = <<EmptyDict>>
    /\ given = Unset
    /\ invoked = <<>>
    /\ returned = <<>>
    /\ ret = Unset
    /\ runs = 0
    /\ hpc = "none"
    /\ reader = <<>>
    /\ meta = Unset
    /\ css = None
    /\ fs = InitFs
    /\ ops = <<>>
    /\ prev = NoPrev

Init ==
    /\ opA = Unset /\ opB = Unset /\ opC = Unset
    /\ ab = Unset /\ bc = Unset /\ left = Unset /\ right = Unset
    /\ InitRun

Next ==
    \/ StaticGenBuild
    \/ Rebuild
    \/ RunHtml
    \/ RunHtmlOtherCss
    \/ HtmlStart
    \/ HtmlDoc
    \/ HtmlDocFail
    \/ HtmlMeta
    \/ HtmlCss
    \/ StepPut
    \/ StepFresh
    \/ StepRaise
    \/ StepCopyTree
    \/ StepCopyIPynb
    \/ RunReturn

Spec == Init /\ [][Next]_vars

-----------------------------------------------------------------------------
(* Chains built and run by a user of the library *)

ChainLeaves == UserLeaves \cup { FrontEnd }

\* BuilderChain(*steps)
DirectChains == { BuilderChain(s) : s \in SeqsUpTo(ChainLeaves, MaxChain) }

Dict(d) == [cls |-> "dict", val |-> d]

\* chain.run(), chain.run({}) and chain.run({'k': 0})
RunArgs == { Unset, Dict(EmptyDict), Dict({<<"k", 0>>}) }

RunChain ==
    /\ \E c \in DirectChains, arg \in RunArgs : Run(c, arg)
    /\ UNCHANGED <<composeVars, prev>>

NextChain ==
    \/ RunChain
    \/ StepPut
    \/ StepFresh
    \/ StepRaise
    \/ StepCopyTree
    \/ RunReturn

SpecChain == Init /\ [][NextChain]_vars

-----------------------------------------------------------------------------
(* Composition: l = (A >> B) >> C and r = A >> (B >> C), then l.run(), r.run() *)

OperandLeaves == { PutK, FreshJ }
OperandBuilders ==
    OperandLeaves \cup { BuilderChain(s) : s \in SeqsUpTo(OperandLeaves, MaxOperandLen) }

\* x >> y where evaluating x may already have raised
Then(x, y) == IF x = ValueError THEN ValueError ELSE RShift(x, y)
After(x, y) == IF y = ValueError THEN ValueError ELSE RShift(x, y)

\* A >> B extending the steps of a chain A in place
ComposeABInPlace ==
    /\ ab = Unset
    /\ ab' = RShift(opA, opB)
    /\ opA' = IF IsChain(opA) /\ IsChain(ab') THEN ab' ELSE opA
    /\ UNCHANGED <<opB, opC, bc, left, right, runVars, htmlVars, fs, ops, prev>>

\* ab = A >> B
ComposeAB ==
    /\ ab = Unset
    /\ ab' = RShift(opA, opB)
    /\ UNCHANGED <<opA, opB, opC, bc, left, right, runVars, htmlVars, fs, ops, prev>>

ComposeLeft ==
    /\ ab # Unset
    /\ left = Unset
    /\ left' = Then(ab, opC)
    /\ UNCHANGED <<opA, opB, opC, ab, bc, right, runVars, htmlVars, fs, ops, prev>>

ComposeBC ==
    /\ bc = Unset
    /\ bc' = RShift(opB, opC)
    /\ UNCHANGED <<opA, opB, opC, ab, left, right, runVars, htmlVars, fs, ops, prev>>

ComposeRight ==
    /\ bc # Unset
    /\ right = Unset
    /\ right' = After(opA, bc)
    /\ UNCHANGED <<opA, opB, opC, ab, bc, left, runVars, htmlVars, fs, ops, prev>>

RunLeft ==
    /\ left # Unset
    /\ Run(left, Unset)
    /\ UNCHANGED <<composeVars, prev>>

RunRight ==
    /\ right # Unset
    /\ Run(right, Unset)
    /\ UNCHANGED <<composeVars, prev>>

InitCompose ==
    /\ opA \in OperandBuilders
    /\ opB \in OperandBuilders
    /\ opC \in OperandBuilders \cup NonBuilders
    /\ ab = Unset /\ bc = Unset /\ left = Unset /\ right = Unset
    /\ InitRun

NextCompose ==
    \/ ComposeAB
    \/ ComposeLeft
    \/ ComposeBC
    \/ ComposeRight
    \/ RunLeft
    \/ RunRight
    \/ StepPut
    \/ StepFresh
    \/ RunReturn

SpecCompose == InitCompose /\ [][NextCompose]_vars

-----------------------------------------------------------------------------
(* Properties *)

\* The leaf steps of a builder, in order.
RECURSIVE Flat(_)
Flat(b) ==
    IF IsChain(b)
    THEN IF b.steps = <<>> THEN <<>>
         ELSE Flat(Head(b.steps)) \o Flat(BuilderChain(Tail(b.steps)))
    ELSE <<b>>

InvokedLeaves == [i \in 1..Len(invoked) |-> invoked[i].leaf]

\* C1: for builders A, B, C, (A >> B) >> C and A >> (B >> C) are the same
\* BuilderChain; its steps are the leaf steps of A, then of B, then of C, none
\* of them a BuilderChain; a run of either invokes exactly these steps in
\* this order.
C1_Associative ==
    IsBuilder(opC) =>
        /\ (left # Unset /\ right # Unset) =>
              /\ IsChain(left)
              /\ left = right
              /\ left.steps = Flat(opA) \o Flat(opB) \o Flat(opC)
              /\ \A i \in 1..Len(left.steps) : ~IsChain(left.steps[i])
        /\ rpc = "done" => InvokedLeaves = Flat(opA) \o Flat(opB) \o Flat(opC)

C1_Witness ==
    /\ IsChain(opA) /\ Len(opA.steps) = 2
    /\ ~IsChain(opB)
    /\ IsChain(opC) /\ Len(opC.steps) = 2
    /\ left # Unset /\ right # Unset
    /\ rpc = "done" /\ Len(invoked) = 5

\* C2: a run whose steps all succeed invokes every step once, in chain
\* order; step 1 receives the state passed to run, step i+1 the value step i
\* returned, and run returns the value the last step returned.
C2_RunThreadsState ==
    rpc = "done" =>
        /\ Len(invoked) = Len(steps)
        /\ Len(returned) = Len(steps)
        /\ \A i \in 1..Len(steps) :
              /\ invoked[i].step = i
              /\ invoked[i].leaf = steps[i]
              /\ returned[i].step = i
        /\ Len(steps) > 0 =>
              /\ invoked[1].ref = given.ref
              /\ invoked[1].val = given.val
              /\ ret.ref = returned[Len(steps)].ref
              /\ ret.val = returned[Len(steps)].val
        /\ \A i \in 1..(Len(steps) - 1) :
              /\ invoked[i + 1].ref = returned[i].ref
              /\ invoked[i + 1].val = returned[i].val

C2_Witness ==
    /\ rpc = "done"
    /\ Len(steps) = 2
    /\ steps[1].cls = "FreshBuilder"
    /\ steps[2].cls = "PutBuilder"
    /\ given.explicit
    /\ ret.val = {<<"j", 2>>, <<"k", 1>>}

OpDone(o) ==
    IF o.op = "write" THEN o.path \in DOMAIN fs.files ELSE o.path \in fs.dirs

\* C3: when step k fails the run fails there: the steps after k are never
\* invoked, nothing is returned, and what steps 1..k wrote stays on disk.
C3_FailureAborts ==
    /\ (\E i \in 1..Len(invoked) : invoked[i].leaf.cls = "RaiseBuilder")
          => rpc = "failed"
    /\ rpc = "failed" =>
          /\ ret = Unset
          /\ Len(invoked) = idx
          /\ Len(returned) = idx - 1
          /\ \A i \in 1..Len(invoked) : invoked[i].step = i
          /\ \A i \in 1..Len(ops) : OpDone(ops[i])
          /\ \A i \in 1..Len(reader) :
                reader[i].ok => HtmlPath(steps[1], reader[i]) \in DOMAIN fs.files

C3_Witness ==
    /\ rpc = "failed"
    /\ Len(steps) = 3
    /\ idx = 2
    /\ Len(reader) = 2
    /\ HtmlPath(steps[1], reader[1]) \in DOMAIN fs.files
    /\ MetaPath(steps[1]) \in DOMAIN fs.files

\* C4: a run called with no state argument hands its first step an empty
\* mapping, in every call.
C4_DefaultStateEmpty ==
    (rpc # "idle" /\ ~given.explicit /\ Len(invoked) >= 1) => invoked[1].val = EmptyDict

\* C5: builder >> x with x not a Builder raises when the expression is
\* evaluated: no chain results and no run is ever invoked.
C5_NonBuilderRaises ==
    opC \in NonBuilders =>
        /\ bc \in {Unset, ValueError}
        /\ left \in {Unset, ValueError}
        /\ right \in {Unset, ValueError}
        /\ rpc = "idle" /\ runs = 0 /\ invoked = <<>>

C5_Witness ==
    /\ opC \in NonBuilders
    /\ ~IsChain(opB)
    /\ bc = ValueError
    /\ left = ValueError
    /\ right = ValueError

\* StaticHTMLBuilder.run, the first step of the chain, has returned.
HtmlDone ==
    /\ Len(steps) >= 1
    /\ steps[1].cls = "StaticHTMLBuilder"
    /\ Len(returned) >= 1

Last(s) == s[Len(s)]

OpsIn(dir) == { i \in 1..Len(ops) : IsPrefix(dir, ops[i].path) /\ ops[i].op # "copy_tree" }
FilesIn(dir) == { p \in DOMAIN fs.files : IsPrefix(dir, p) }

\* The Metadata Index as written to meta.json
Index == fs.files[MetaPath(steps[1])].json

\* C6: after StaticHTMLBuilder.run the notebooks list of meta.json has one
\* entry per enumerated document, in enumeration order, with _id
\* "notebook/<name>", name, filename "<name>.ipynb" and path
\* "notebooks/<name>.html".
C6_IndexEntries ==
    HtmlDone =>
        /\ Len(Index.notebooks) = Len(reader)
        /\ \A i \in 1..Len(reader) :
              /\ Index.notebooks[i]._id = "notebook/" \o reader[i].name
              /\ Index.notebooks[i].name = reader[i].name
              /\ Index.notebooks[i].filename = reader[i].name \o ".ipynb"
              /\ Index.notebooks[i].path = "notebooks/" \o reader[i].name \o ".html"

C6_Witness ==
    /\ HtmlDone
    /\ Len(reader) = 2
    /\ reader[1].name = "a"
    /\ reader[2].name = "b"
    /\ Index.notebooks[2].path = "notebooks/b.html"

\* assets/css/nbconvert-<i>.css of the output directory
CssFile(i) == <<"_site", "assets", "css", "nbconvert-" \o ToString(i) \o ".css">>

\* C7: with write_css on and a clean output directory, when the last document
\* has the non-empty fragment list L the CSS files written are exactly
\* nbconvert-0.css .. nbconvert-(|L|-1).css, file i holding L[i]; no fragment
\* of an earlier document is written.
C7_LastDocumentCss ==
    (HtmlDone /\ runs = 1 /\ steps[1].write_css /\ Len(reader) >= 1
        /\ Last(reader).css # <<>>) =>
        LET L == Last(reader).css
            Expected == { CssFile(i) : i \in 0..(Len(L) - 1) }
        IN  /\ FilesIn(<<"_site", "assets", "css">>) = Expected
            /\ \A i \in 0..(Len(L) - 1) : fs.files[CssFile(i)].text = L[i + 1]
            /\ { ops[i].path : i \in { j \in OpsIn(<<"_site", "assets">>) :
                                          ops[j].op = "write" } } = Expected

C7_Witness ==
    /\ HtmlDone /\ runs = 1 /\ steps[1].write_css
    /\ Len(reader) = 2
    /\ reader[1].css = <<"body{}">>
    /\ reader[2].css = <<"a{}", "b{}">>
    /\ fs.files[CssFile(0)].text = "a{}"
    /\ fs.files[CssFile(1)].text = "b{}"

\* C8 as claimed: a run in which some document has an empty fragment list
\* does not create assets/css.
C8_AnyEmptyNoAssets ==
    (HtmlDone /\ \E i \in 1..Len(reader) : reader[i].css = <<>>) =>
        OpsIn(AssetsDir(steps[1])) = {}

\* C8 amended: a run whose last document has an empty fragment list does
\* not create assets/css and writes nothing below it.
C8_LastEmptyNoAssets ==
    (HtmlDone /\ Len(reader) >= 1 /\ Last(reader).css = <<>>) =>
        /\ OpsIn(AssetsDir(steps[1])) = {}
        /\ runs = 1 => AssetsDir(steps[1]) \notin fs.dirs

C8_Witness ==
    /\ HtmlDone /\ runs = 1 /\ steps[1].write_css
    /\ Len(reader) = 2
    /\ reader[1].css # <<>>
    /\ reader[2].css = <<>>
    /\ AssetsDir(steps[1]) \notin fs.dirs

\* The fragment list of the last document that has fragments, if any
RECURSIVE LastNonEmptyCss(_)
LastNonEmptyCss(docs) ==
    IF docs = <<>> THEN <<>>
    ELSE IF Last(docs).css # <<>> THEN Last(docs).css
    ELSE LastNonEmptyCss(SubSeq(docs, 1, Len(docs) - 1))

InLoop == rpc = "running" /\ hpc \in {"loop", "css"} /\ Len(reader) >= 1

\* C9 as claimed: a later document with an empty fragment list does not
\* replace the CSS set captured from an earlier document.
C9_CssKeptOverEmpty ==
    InLoop => css = List(LastNonEmptyCss(reader))

\* C9 amended: every document replaces the CSS set captured so far with its
\* own fragment list, also when that list is empty.
C9_CssIsLastDocuments ==
    InLoop => css = List(Last(reader).css)

C9_Witness ==
    /\ InLoop /\ hpc = "css"
    /\ Len(reader) = 2
    /\ reader[1].css = <<"body{}">>
    /\ reader[2].css = <<>>
    /\ css = List(<<>>)

\* C10: for an empty Document Source the run creates notebooks/ and writes
\* no HTML file, writes meta.json with the builder's cmdargs and an empty
\* notebooks list, and neither creates assets/css nor writes a CSS file.
C10_EmptySource ==
    (HtmlDone /\ reader = <<>>) =>
        LET self == steps[1] IN
        /\ NbsDir(self) \in fs.dirs
        /\ OpMkdir(NbsDir(self)) = ops[1]
        /\ \A i \in OpsIn(NbsDir(self)) : ops[i].op = "mkdir"
        /\ Index = [cmdargs |-> self.cmdargs, notebooks |-> <<>>]
        /\ OpsIn(AssetsDir(self)) = {}
        /\ runs = 1 => /\ FilesIn(NbsDir(self)) = {}
                        /\ AssetsDir(self) \notin fs.dirs

C10_Witness ==
    /\ HtmlDone /\ reader = <<>> /\ runs = 1
    /\ steps[1].write_css
    /\ steps[1].cmdargs = <<"--dev">>
    /\ Index.notebooks = <<>>

\* The builders of the library that leave the state alone
PassThrough == {"StaticHTMLBuilder", "CopyTreeBuilder", "CopyIPynbBuilder"}

\* C11: StaticHTMLBuilder.run, CopyTreeBuilder.run and CopyIPynbBuilder.run
\* return the very object they received with the content it had when they
\* received it, whatever that content and whatever the documents; a chain of
\* these builders only returns the state object it was given, unchanged.
C11_StatePassedThrough ==
    /\ \A i \in 1..Len(returned) :
          invoked[i].leaf.cls \in PassThrough =>
              /\ returned[i].step = invoked[i].step
              /\ returned[i].ref = invoked[i].ref
              /\ returned[i].val = invoked[i].val
    /\ (rpc = "done" /\ \A i \in 1..Len(steps) : steps[i].cls \in PassThrough) =>
          /\ ret.ref = given.ref
          /\ ret.val = given.val

C11_Witness ==
    /\ rpc = "done"
    /\ Len(steps) = 3
    /\ steps[1].cls = "StaticHTMLBuilder"
    /\ steps[2].cls = "CopyIPynbBuilder"
    /\ steps[3].cls = "CopyTreeBuilder"
    /\ Len(reader) = 2
    /\ given.val = {<<"k", 1>>}
    /\ ret.val = {<<"k", 1>>}

\* Positions in the log of this run's writes of meta.json, of HTML files and
\* of CSS asset files
MetaWrites == { i \in 1..Len(ops) : ops[i] = OpWrite(<<"_site", "meta.json">>) }
HtmlWrites ==
    { i \in 1..Len(ops) :
        ops[i].op = "write" /\ IsPrefix(<<"_site", "notebooks">>, ops[i].path) }
CssWrites ==
    { i \in 1..Len(ops) :
        ops[i].op = "write" /\ IsPrefix(<<"_site", "assets", "css">>, ops[i].path) }

\* C12: a run of the Static HTML Builder writes meta.json exactly once, after
\* the HTML file of every document, and writes CSS files only after
\* meta.json; while documents are being processed neither has been written.
C12_IndexAfterLoop ==
    /\ Cardinality(MetaWrites) <= 1
    /\ \A m \in MetaWrites :
          /\ \A h \in HtmlWrites : h < m
          /\ \A c \in CssWrites : m < c
    /\ CssWrites # {} => MetaWrites # {}
    /\ (rpc = "running" /\ hpc = "loop") => (MetaWrites = {} /\ CssWrites = {})
    /\ hpc = "css" => Cardinality(MetaWrites) = 1
    /\ HtmlDone =>
          /\ Cardinality(MetaWrites) = 1
          /\ Cardinality(HtmlWrites) = Len(reader)

C12_Witness ==
    /\ HtmlDone
    /\ Len(reader) = 2
    /\ HtmlWrites = {2, 3}
    /\ MetaWrites = {4}
    /\ CssWrites = {6, 7}

\* The chain StaticGen composes is running or has run
IsBuild == Len(steps) >= 2 /\ steps[1].cls = "StaticHTMLBuilder"

\* notebooks/<name>.html of the output directory
HtmlFile(name) == <<"_site", "notebooks", name \o ".html">>

\* C13: when extracting document k fails during StaticGen.build() the build
\* fails there: k is the last document pulled, the only writes of the build
\* are the HTML files of documents 1..k-1, in order, and these are on disk;
\* no file is written for document k, meta.json and the CSS files are not
\* written, and no step of the finishing builder is invoked.
C13_ExtractionFailureAborts ==
    IsBuild =>
        /\ \A k \in 1..Len(reader) :
              ~reader[k].ok =>
                  /\ rpc = "failed"
                  /\ k = Len(reader)
                  /\ ops = <<OpMkdir(<<"_site", "notebooks">>)>>
                            \o [i \in 1..(k - 1) |-> OpWrite(HtmlFile(reader[i].name))]
                  /\ \A i \in 1..(k - 1) : HtmlFile(reader[i].name) \in DOMAIN fs.files
                  /\ \A i \in 1..(k - 1) :
                        (\A j \in (i + 1)..(k - 1) : reader[j].name # reader[i].name)
                            => fs.files[HtmlFile(reader[i].name)].text = reader[i].html
                  /\ runs = 1 =>
                        /\ HtmlFile(reader[k].name) \notin DOMAIN fs.files
                        /\ <<"_site", "meta.json">> \notin DOMAIN fs.files
                        /\ FilesIn(<<"_site", "assets">>) = {}
                  /\ MetaWrites = {} /\ CssWrites = {}
                  /\ Len(invoked) = 1 /\ invoked[1].step = 1
                  /\ returned = <<>> /\ ret = Unset

C13_Witness ==
    /\ IsBuild
    /\ rpc = "failed"
    /\ runs = 1
    /\ Len(reader) = 2
    /\ reader[1].name = "b"
    /\ ~reader[2].ok
    /\ fs.files[HtmlFile("b")].text = "<b>"
    /\ Len(ops) = 2

\* C14: StaticGen.build() runs the composed chain once from an empty state;
\* the Static HTML Builder, with thumbnails and CSS writing on, is the first
\* step and has returned before a finishing step is invoked, and every
\* finishing step, none of them a chain, is invoked once, in order.
C14_BuildOnceFromEmpty ==
    IsBuild =>
        /\ given.val = EmptyDict
        /\ Len(invoked) >= 1 => invoked[1].val = EmptyDict
        /\ steps[1].thumbnails /\ steps[1].write_css
        /\ \A i \in 1..Len(steps) : ~IsChain(steps[i])
        /\ \A i \in 1..Len(invoked) : invoked[i].step = i /\ invoked[i].leaf = steps[i]
        /\ Len(invoked) >= 2 => (Len(returned) >= 1 /\ hpc = "none")
        /\ rpc = "done" => Len(invoked) = Len(steps)

\* The files below dir, with their content, in filesystem f
Tree(f, dir) == [p \in { q \in DOMAIN f.files : IsPrefix(dir, q) } |-> f.files[p]]

\* C15: when build() is called a second time with the input directory
\* unchanged, and both builds complete, the second build leaves the same
\* meta.json, the same HTML files and the same CSS files as the first.
C15_RebuildIdempotent ==
    (prev # NoPrev /\ IsBuild /\ rpc = "done") =>
        /\ prev.steps = steps /\ prev.reader = reader /\ prev.rpc = "done"
        /\ Tree(fs, <<"_site", "meta.json">>) = Tree(prev.fs, <<"_site", "meta.json">>)
        /\ Tree(fs, <<"_site", "notebooks">>) = Tree(prev.fs, <<"_site", "notebooks">>)
        /\ Tree(fs, <<"_site", "assets", "css">>) = Tree(prev.fs, <<"_site", "assets", "css">>)

C15_Witness ==
    /\ prev # NoPrev /\ IsBuild /\ rpc = "done"
    /\ runs = 2
    /\ Len(reader) = 2
    /\ reader[1].name = "a"
    /\ reader[2].name = "b"
    /\ Len(fs.files[<<"_site", "meta.json">>].json.notebooks) = 2
    /\ DOMAIN Tree(fs, <<"_site", "assets", "css">>) = {CssFile(0), CssFile(1)}

\* C16: after a completed run of the Static HTML Builder, into a clean or a
\* used output directory, every file below assets/css is nbconvert-<i>.css
\* for a fragment i of the last document of this run, and CSS writing is on.
C16_NoStaleCss ==
    HtmlDone =>
        \A p \in FilesIn(<<"_site", "assets", "css">>) :
            /\ steps[1].write_css
            /\ Len(reader) >= 1
            /\ IF Len(reader) >= 1
               THEN \E i \in 0..(Len(Last(reader).css) - 1) : p = CssFile(i)
               ELSE FALSE

NotAsset(o) == ~IsPrefix(<<"_site", "assets">>, o.path)

\* C17: a StaticHTMLBuilder with write_css off creates no directory and
\* writes no file below assets in any run; run on the documents a builder
\* with write_css on was run on, and otherwise equal to it, it performs the
\* same writes of HTML files and of meta.json with the same content.
C17_CssOffSameOutput ==
    /\ (Len(steps) >= 1 /\ steps[1].cls = "StaticHTMLBuilder" /\ ~steps[1].write_css) =>
          /\ OpsIn(<<"_site", "assets">>) = {}
          /\ runs = 1 => <<"_site", "assets">> \notin fs.dirs
    /\ (prev # NoPrev /\ Len(steps) = 1 /\ rpc = "done") =>
          /\ prev.rpc = "done"
          /\ prev.steps[1] = [steps[1] EXCEPT !.write_css = ~@]
          /\ prev.reader = reader
          /\ SelectSeq(ops, NotAsset) = SelectSeq(prev.ops, NotAsset)
          /\ Tree(fs, <<"_site", "notebooks">>) = Tree(prev.fs, <<"_site", "notebooks">>)
          /\ Tree(fs, <<"_site", "meta.json">>) = Tree(prev.fs, <<"_site", "meta.json">>)

C17_Witness ==
    /\ prev # NoPrev /\ Len(steps) = 1 /\ rpc = "done"
    /\ ~steps[1].write_css
    /\ Len(reader) = 2
    /\ Last(reader).css = <<"a{}", "b{}">>
    /\ Len(prev.ops) = 7
    /\ Len(ops) = 4
    /\ Len(fs.files[<<"_site", "meta.json">>].json.notebooks) = 2

\* A step that evaluates one of the >> expressions
Composes == ab' # ab \/ bc' # bc \/ left' # left \/ right' # right

\* C18: evaluating a >> expression changes neither operand, invokes no run
\* and touches no file; the chain it yields holds the steps the operands had
\* and still have, and until a run is called nothing has been invoked or
\* written.
C18_ComposePure ==
    /\ [][Composes => UNCHANGED <<opA, opB, opC, runVars, htmlVars, fs, ops>>]_vars
    /\ [](/\ (ab # Unset /\ IsChain(ab)) => ab.steps = Flat(opA) \o Flat(opB)
          /\ (bc # Unset /\ IsChain(bc)) => bc.steps = Flat(opB) \o Flat(opC)
          /\ runs = 0 => (rpc = "idle" /\ invoked = <<>> /\ ops = <<>> /\ fs = InitFs))

C18_Witness ==
    /\ IsChain(opA) /\ Len(opA.steps) = 2
    /\ IsChain(opB) /\ Len(opB.steps) = 2
    /\ IsChain(ab) /\ ab.steps = opA.steps \o opB.steps
    /\ IsChain(bc)
    /\ IsChain(left) /\ IsChain(right)
    /\ runs = 0 /\ invoked = <<>> /\ fs = InitFs

DistinctNames ==
    \A i, j \in 1..Len(reader) : reader[i].name = reader[j].name => i = j

\* C19: after a run over documents with pairwise distinct names, entry i of
\* the index has the path notebooks/<name>.html of a file that holds the html
\* of document i, and the run wrote one file per document below notebooks/.
\* With a name used twice the index still has one entry per document, two of
\* them with the same _id and path, and the one file holds the html of the
\* later document.
C19_IndexNamesFiles ==
    HtmlDone =>
        /\ Len(Index.notebooks) = Len(reader)
        /\ \A i \in 1..Len(reader) :
              /\ Index.notebooks[i].path = "notebooks/" \o reader[i].name \o ".html"
              /\ Index.notebooks[i]._id = "notebook/" \o reader[i].name
              /\ HtmlFile(reader[i].name) \in DOMAIN fs.files
              /\ (\A j \in (i + 1)..Len(reader) : reader[j].name # reader[i].name)
                    => fs.files[HtmlFile(reader[i].name)].text = reader[i].html
        /\ { ops[i].path : i \in HtmlWrites } = { HtmlFile(reader[i].name) : i \in 1..Len(reader) }
        /\ Cardinality(HtmlWrites) = Len(reader)
        /\ DistinctNames =>
              Cardinality({ ops[i].path : i \in HtmlWrites }) = Len(reader)
        /\ runs = 1 =>
              FilesIn(<<"_site", "notebooks">>) = { HtmlFile(reader[i].name) : i \in 1..Len(reader) }

C19_Witness ==
    /\ HtmlDone
    /\ Len(reader) = 2
    /\ reader[1].name = "a" /\ reader[1].html = "<a>"
    /\ reader[2].name = "a" /\ reader[2].html = "<a2>"
    /\ Index.notebooks[1]._id = Index.notebooks[2]._id
    /\ Index.notebooks[1].path = "notebooks/a.html"
    /\ FilesIn(<<"_site", "notebooks">>) = { HtmlFile("a") }
    /\ fs.files[HtmlFile("a")].text = "<a2>"

====
